---- MODULE Spec2Model ----
(***************************************************************************)
(* HRMS Lite: the employee registry, the attendance ledger and the         *)
(* dashboard of backend/crud.py and backend/main.py, run by concurrent     *)
(* request handlers.  Every handler owns one SQLAlchemy session            *)
(* (database.get_db) on the store that database.py configures: MySQL over  *)
(* pymysql, i.e. InnoDB at its default isolation level.  A session's       *)
(* first SELECT opens its transaction and fixes the read view every later  *)
(* plain SELECT of the session reads; INSERT and DELETE statements are     *)
(* flushed by db.commit() and act on the committed rows, under the         *)
(* primary-key and foreign-key constraints that models.py declares.        *)
(***************************************************************************)
EXTENDS Integers, Sequences, FiniteSets, TLC

VARIABLES
    employees,   \* rows of table "employees" (committed)
    attendance,  \* rows of table "attendance" (committed)
    nextId,      \* AUTO_INCREMENT counter of attendance.id
    pc,          \* pc[p]: where handler p stands in its request
    req,         \* req[p]: the request handler p is serving
    snap,        \* snap[p]: read view of p's session transaction
    acc,         \* acc[p]: local variables of get_dashboard_stats
    hist,        \* hist[p]: store states committed while p's read ran
    race,        \* race[p]: "lost" once a rival's insert of p's pending id
                 \* committed, "freed" once that row was deleted again
    created,     \* ids of the attendance rows inserted so far, in order
    resp,        \* the response sent by the last step (NoResp: none)
    ops          \* number of requests received so far

vars == <<employees, attendance, nextId, pc, req, snap, acc, hist, race, created,
          resp, ops>>

----------------------------------------------------------------------------
(* Bounds and input domains *)

MaxOps == 3

Procs == {1, 2}

\* Text is a sequence of characters.
E1 == <<"E", "1">>

E2 == <<"E", "2">>

EmpIds == {E1, E2}

\* Field values V of an employee creation: name, email, department.
Ann == [name |-> <<"A", "n", "n">>,
        email |-> <<"a", "@", "c", "o", ".", "i", "o">>,
        department |-> <<"E", "n", "g">>]

Bob == [name |-> <<"B", "o", "b">>,
        email |-> <<"b", "@", "c", "o", ".", "i", "o">>,
        department |-> <<"O", "p", "s">>]

Profiles == {Ann, Bob}

\* Request bodies of POST /employees: a JSON object with some of the four
\* fields.
Body(eid, v) ==
    [employee_id |-> eid, name |-> v.name, email |-> v.email,
     department |-> v.department]

Without(data, f) == [g \in DOMAIN data \ {f} |-> data[g]]

With(data, f, x) == [g \in DOMAIN data |-> IF g = f THEN x ELSE data[g]]

EmailInputs ==
    { <<"b", "@", "C", "O", ".", "i", "o">>,          \* upper-case domain
      <<" ", "b", "@", "c", "o", ".", "i", "o">>,     \* leading space
      <<"<", "b", "@", "c", "o", ".", "i", "o", ">">>,\* angle brackets
      <<"b", "!", "@", "c", "o", ".", "i", "o">>,     \* "!" in the local part
      <<"b", "c", "o", ".", "i", "o">>,               \* no "@"
      <<"b", "@", "c", "o">>,                         \* no top-level domain
      <<"b", "@", "c", "o", ".", "i">> }              \* one-letter top level

\* The bodies the handlers of Spec receive.
EmployeeInputs ==
    {Body(eid, v) : eid \in EmpIds, v \in Profiles}
      \cup {Without(Body(E2, Bob), "name"),
            With(Body(E2, Bob), "email", <<"b", "c", "o", ".", "i", "o">>)}

\* The bodies the handlers of SpecForms receive.
EmployeeForms ==
    {Body(eid, v) : eid \in EmpIds, v \in Profiles}
      \cup {Without(Body(E2, Bob), f) : f \in DOMAIN Body(E2, Bob)}
      \cup {With(Body(E2, Bob), f, <<>>) : f \in DOMAIN Body(E2, Bob)}
      \cup {With(Body(E2, Bob), f, <<" ">>) : f \in {"employee_id", "name", "department"}}
      \cup {With(Body(E2, Bob), "email", e) : e \in EmailInputs}

Dates == {1, 2}

StatusInputs == {"Present", "Absent", "present", " Present ", ""}

----------------------------------------------------------------------------
(* models.py *)

Present == "AttendanceStatus.Present"

Absent == "AttendanceStatus.Absent"

AttendanceStatus == {Present, Absent}

\* AttendanceStatus.<member>.value
StatusValue(s) == IF s = Present THEN "Present" ELSE "Absent"

Employee(eid, v) ==
    [employee_id |-> eid, name |-> v.name, email |-> v.email,
     department |-> v.department]

Attendance(id, eid, d, s) ==
    [id |-> id, employee_id |-> eid, date |-> d, status |-> s]

----------------------------------------------------------------------------
(* The store *)

Db == [employees |-> employees, attendance |-> attendance]

NoSnap == [employees |-> {}, attendance |-> {}, open |-> FALSE]

\* SessionLocal(): autocommit=False, so the first query begins a transaction
\* whose consistent read view is the committed state at that moment.
BeginView == [employees |-> employees, attendance |-> attendance, open |-> TRUE]

\* Variant: every SELECT reads the latest committed rows (no read view).
ReadViewLive(p) == BeginView

\* What a plain SELECT of session p reads.
ReadView(p) == snap[p]

\* Variant: the filter compares the wrong column.
FirstEmployeeByName(view, eid) == {e \in view.employees : e.name = eid}

\* Variant: the filter is missing.
FirstEmployeeAny(view, eid) == view.employees

\* db.query(Employee).filter(Employee.employee_id == eid).first()
FirstEmployee(view, eid) == {e \in view.employees : e.employee_id = eid}

\* Variant: no primary key on employee_id.
InsertEmployeeNoKey(emps, row) == [exc |-> "none", employees |-> emps \cup {row}]

\* Variant: the rejected insert has replaced the row before it fails.
InsertEmployeeReplace(emps, row) ==
    IF \E e \in emps : e.employee_id = row.employee_id
    THEN [exc |-> "IntegrityError",
          employees |-> {e \in emps : e.employee_id # row.employee_id} \cup {row}]
    ELSE [exc |-> "none", employees |-> emps \cup {row}]

\* INSERT INTO employees: the primary key rejects a second row with the id.
InsertEmployee(emps, row) ==
    IF \E e \in emps : e.employee_id = row.employee_id
    THEN [exc |-> "IntegrityError", employees |-> emps]
    ELSE [exc |-> "none", employees |-> emps \cup {row}]

\* Variant: the foreign key is not enforced.
ForeignKeyUnchecked(emps, eid) == TRUE

\* FOREIGN KEY (employee_id) REFERENCES employees: checked at INSERT.
ForeignKeyHolds(emps, eid) == \E e \in emps : e.employee_id = eid

\* Variant: the id is one more than the largest id in the table.
AutoIncrementMaxPlusOne(atts, counter) ==
    IF atts = {} THEN 1
    ELSE 1 + CHOOSE n \in {a.id : a \in atts} : \A a \in atts : a.id <= n

\* id INTEGER AUTO_INCREMENT: the id the next inserted row gets.
AutoIncrement(atts, counter) == counter

\* Variant: a unique key on (employee_id, date).
InsertAttendanceUniqueDay(emps, atts, id, eid, d, s) ==
    IF ForeignKeyHolds(emps, eid)
       /\ ~\E a \in atts : a.employee_id = eid /\ a.date = d
    THEN [exc |-> "none", attendance |-> atts \cup {Attendance(id, eid, d, s)}]
    ELSE [exc |-> "IntegrityError", attendance |-> atts]

\* INSERT INTO attendance, id from the AUTO_INCREMENT counter: the foreign
\* key is the only constraint besides the primary key.
InsertAttendance(emps, atts, id, eid, d, s) ==
    IF ForeignKeyHolds(emps, eid)
    THEN [exc |-> "none", attendance |-> atts \cup {Attendance(id, eid, d, s)}]
    ELSE [exc |-> "IntegrityError", attendance |-> atts]

\* employee.attendance_records as loaded for the delete cascade.
LoadedChildren(view, eid) ==
    {a.id : a \in {x \in view.attendance : x.employee_id = eid}}

\* DELETE FROM attendance WHERE id = ?, once per loaded child.
DeleteChildren(atts, ids) == {a \in atts : a.id \notin ids}

\* Variant: no cascade in the store.
OnDeleteNoAction(atts, eid) == atts

\* Variant: the delete of one employee empties the attendance table.
OnDeleteCascadeAll(atts, eid) == {}

\* ON DELETE CASCADE of attendance.employee_id.
OnDeleteCascade(atts, eid) == {a \in atts : a.employee_id # eid}

\* Variant: DELETE FROM employees without the WHERE clause.
DeleteParentAll(emps, eid) == {}

\* DELETE FROM employees WHERE employee_id = ?
DeleteParent(emps, eid) == {e \in emps : e.employee_id # eid}

----------------------------------------------------------------------------
(* schemas.py *)

\* Variant: the status is matched without regard to case.
ValidStatusAnyCase(s) == s \in {"Present", "Absent", "present"}

\* AttendanceCreate.status: Literal["Present", "Absent"]
ValidStatus(s) == s \in {"Present", "Absent"}

\* AttendanceResponse.from_orm
AttendanceResponse(a) ==
    [id |-> a.id, employee_id |-> a.employee_id, date |-> a.date,
     status |-> StatusValue(a.status)]

\* Characters
LowerCase ==
    <<"a", "b", "c", "d", "e", "f", "g", "h", "i", "j", "k", "l", "m",
      "n", "o", "p", "q", "r", "s", "t", "u", "v", "w", "x", "y", "z">>

UpperCase ==
    <<"A", "B", "C", "D", "E", "F", "G", "H", "I", "J", "K", "L", "M",
      "N", "O", "P", "Q", "R", "S", "T", "U", "V", "W", "X", "Y", "Z">>

Letters == {LowerCase[i] : i \in DOMAIN LowerCase} \cup {UpperCase[i] : i \in DOMAIN UpperCase}

Digits == {"0", "1", "2", "3", "4", "5", "6", "7", "8", "9"}

Whitespace == {" ", "\t", "\n", "\r", "\f"}

\* str.lower() of one character
ToLower(c) ==
    IF \E i \in DOMAIN UpperCase : UpperCase[i] = c
    THEN LowerCase[CHOOSE i \in DOMAIN UpperCase : UpperCase[i] = c]
    ELSE c

Lower(s) == [i \in 1..Len(s) |-> ToLower(s[i])]

AllIn(s, class) == \A i \in 1..Len(s) : s[i] \in class

\* str.strip()
Strip(s) ==
    LET keep == {i \in 1..Len(s) : s[i] \notin Whitespace} IN
    IF keep = {} THEN <<>>
    ELSE SubSeq(s, CHOOSE i \in keep : \A j \in keep : i <= j,
                   CHOOSE i \in keep : \A j \in keep : i >= j)

\* Variant: a str field without min_length.
StrFieldAnyLength(data, f) ==
    IF f \notin DOMAIN data THEN {[loc |-> f, type |-> "missing"]} ELSE {}

\* <field>: str = Field(..., min_length=1): the errors of field f of data.
StrField(data, f) ==
    IF f \notin DOMAIN data THEN {[loc |-> f, type |-> "missing"]}
    ELSE IF Len(data[f]) < 1 THEN {[loc |-> f, type |-> "string_too_short"]}
    ELSE {}

\* EmailStr, step 1: "name <address>" and "<address>" are reduced to the
\* address (the name: words of name characters).
NameChars ==
    Letters \cup Digits \cup {"_", "!", "#", "$", "%", "&", "'", "*", "+", "-", "/",
                              "=", "?", "^", "{", "|", "}", "~"}

AngleAddr(s) ==
    LET t == Strip(s)
        open == {i \in 1..Len(t) : t[i] = "<"}
        first == CHOOSE i \in open : \A j \in open : i <= j
    IN
    IF /\ open # {}
       /\ t[Len(t)] = ">"
       /\ Len(t) - first >= 2
       /\ AllIn(SubSeq(t, 1, first - 1), NameChars \cup Whitespace)
    THEN SubSeq(t, first + 1, Len(t) - 1)
    ELSE s

\* A dot-separated run of non-empty words over class.
DotAtom(s, class) ==
    /\ Len(s) >= 1
    /\ AllIn(s, class \cup {"."})
    /\ s[1] # "." /\ s[Len(s)] # "."
    /\ \A i \in 1..(Len(s) - 1) : ~(s[i] = "." /\ s[i + 1] = ".")

\* EmailStr, step 3: the syntax email_validator accepts (deliverability is
\* not checked): local part a dot-atom, domain at least two labels of
\* letters, digits and inner hyphens.
Atext ==
    Letters \cup Digits \cup {"!", "#", "$", "%", "&", "'", "*", "+", "-", "/", "=",
                              "?", "^", "_", "{", "|", "}", "~"}

EmailSyntax(s) ==
    LET ats == {i \in 1..Len(s) : s[i] = "@"}
        at == CHOOSE i \in ats : TRUE
        domain == SubSeq(s, at + 1, Len(s))
    IN
    /\ Cardinality(ats) = 1
    /\ DotAtom(SubSeq(s, 1, at - 1), Atext)
    /\ DotAtom(domain, Letters \cup Digits \cup {"-"})
    /\ \E i \in 1..Len(domain) : domain[i] = "."
    /\ domain[1] # "-" /\ domain[Len(domain)] # "-"
    /\ \A i \in 1..(Len(domain) - 1) :
          /\ ~(domain[i] = "-" /\ domain[i + 1] = ".")
          /\ ~(domain[i] = "." /\ domain[i + 1] = "-")

\* EmailStr, step 4: the normalized address, its domain in lower case.
Normalized(s) ==
    LET at == CHOOSE i \in 1..Len(s) : s[i] = "@" IN
    SubSeq(s, 1, at) \o Lower(SubSeq(s, at + 1, Len(s)))

\* email: EmailStr -- the value handed on, or the rejection.
EmailStr(s) ==
    LET addr == Strip(AngleAddr(s)) IN
    IF EmailSyntax(addr) THEN [ok |-> TRUE, value |-> Normalized(addr)]
    ELSE [ok |-> FALSE, value |-> s]

\* re.match of one of the last two parts of email_pattern at s[from..to]:
\* [a-zA-Z0-9.-]+ \. [a-zA-Z]{2,}
MatchDomain(s, from, to) ==
    \E dot \in (from + 1)..(to - 2) :
      /\ s[dot] = "."
      /\ AllIn(SubSeq(s, from, dot - 1), Letters \cup Digits \cup {".", "-"})
      /\ AllIn(SubSeq(s, dot + 1, to), Letters)

\* re.match(email_pattern, s): "$" also matches before a final newline.
MatchEmailPattern(s) ==
    \E to \in {Len(s)} \cup {n \in {Len(s) - 1} : n >= 1 /\ s[Len(s)] = "\n"} :
      \E at \in 2..to :
        /\ s[at] = "@"
        /\ AllIn(SubSeq(s, 1, at - 1), Letters \cup Digits \cup {".", "_", "%", "+", "-"})
        /\ MatchDomain(s, at + 1, to)

\* EmployeeCreate.validate_email_format
ValidateEmailFormat(v) == MatchEmailPattern(v)

\* The errors of the email field of data.
EmailField(data) ==
    IF "email" \notin DOMAIN data THEN {[loc |-> "email", type |-> "missing"]}
    ELSE IF ~EmailStr(data.email).ok
              \/ ~ValidateEmailFormat(EmailStr(data.email).value)
    THEN {[loc |-> "email", type |-> "value_error"]}
    ELSE {}

\* EmployeeCreate(**data): the validation errors, and the model when there
\* are none.
EmployeeCreate(data) ==
    LET errors == StrField(data, "employee_id") \cup StrField(data, "name")
                    \cup EmailField(data) \cup StrField(data, "department")
    IN
    [errors |-> errors,
     employee_id |-> IF errors = {} THEN data.employee_id ELSE <<>>,
     profile |-> IF errors = {}
                 THEN [name |-> data.name, email |-> EmailStr(data.email).value,
                       department |-> data.department]
                 ELSE {}]

\* What FastAPI makes of each body before the handler runs.
Parsed == [data \in EmployeeForms |-> EmployeeCreate(data)]

----------------------------------------------------------------------------
(* Requests and responses *)

NoReq == [op |-> "none", data |-> <<>>, employee_id |-> <<>>, profile |-> {},
          date |-> 0, status |-> ""]

\* A request: for POST /employees data is the body received and
\* employee_id, profile are the fields of the validated model.
Request(op, eid, v, d, s) ==
    [op |-> op, data |-> <<>>, employee_id |-> eid, profile |-> v, date |-> d,
     status |-> s]

NoAcc == [stage |-> 0]

NoResp == [proc |-> 0, op |-> "none", out |-> "none"]

Response(p, r, out, code, body) ==
    [proc |-> p, at |-> pc[p], op |-> r.op, data |-> r.data,
     employee_id |-> r.employee_id, profile |-> r.profile, status |-> r.status,
     out |-> out, code |-> code, body |-> body]

HTTP_201_CREATED == 201

HTTP_204_NO_CONTENT == 204

HTTP_404_NOT_FOUND == 404

HTTP_409_CONFLICT == 409

HTTP_422_UNPROCESSABLE == 422

HTTP_500_INTERNAL_SERVER_ERROR == 500

\* Variant: IntegrityError is not caught.
CreateEmployeeRaisesUncaught(exc) == exc

\* create_employee: except IntegrityError -> rollback, DuplicateEmployeeError
CreateEmployeeRaises(exc) ==
    IF exc = "IntegrityError" THEN "DuplicateEmployeeError" ELSE exc

\* Variant: a creation is answered 200.
CreateEmployeeStatusOk(out) ==
    CASE out = "none" -> 200
      [] out = "DuplicateEmployeeError" -> HTTP_409_CONFLICT
      [] OTHER -> HTTP_500_INTERNAL_SERVER_ERROR

\* create_employee_endpoint: 201, DuplicateEmployeeError -> 409, and any
\* other exception reaches global_exception_handler -> 500
CreateEmployeeStatus(out) ==
    CASE out = "none" -> HTTP_201_CREATED
      [] out = "DuplicateEmployeeError" -> HTTP_409_CONFLICT
      [] OTHER -> HTTP_500_INTERNAL_SERVER_ERROR

\* create_attendance_endpoint: 201, EmployeeNotFoundError -> 404, else 500
CreateAttendanceStatus(out) ==
    CASE out = "none" -> HTTP_201_CREATED
      [] out = "EmployeeNotFoundError" -> HTTP_404_NOT_FOUND
      [] OTHER -> HTTP_500_INTERNAL_SERVER_ERROR

\* Variant: the endpoint ignores what delete_employee returned.
DeleteEmployeeStatusIgnored(deleted) == HTTP_204_NO_CONTENT

\* delete_employee_endpoint: 204, or 404 when delete_employee returned False
DeleteEmployeeStatus(deleted) ==
    IF deleted THEN HTTP_204_NO_CONTENT ELSE HTTP_404_NOT_FOUND

----------------------------------------------------------------------------
(* Bookkeeping shared by the actions *)

\* Handlers mid-way through a read request: they record the commits that
\* happen while they run.
Reading == {q \in Procs : pc[q] \in {"ga_list", "ds_query"}}

Committed(p, emps, atts) ==
    hist' = [q \in Procs |->
               IF q # p /\ q \in Reading
               THEN hist[q] \cup {[employees |-> emps, attendance |-> atts]}
               ELSE IF q = p THEN {} ELSE hist[q]]

\* p ends its request: the session is closed (get_db), its locals dropped.
Close(p) ==
    /\ pc' = [pc EXCEPT ![p] = "idle"]
    /\ req' = [req EXCEPT ![p] = NoReq]
    /\ snap' = [snap EXCEPT ![p] = NoSnap]
    /\ acc' = [acc EXCEPT ![p] = NoAcc]

\* p moves on inside its request, its transaction open on view v.
Continue(p, stage, r, v) ==
    /\ pc' = [pc EXCEPT ![p] = stage]
    /\ req' = [req EXCEPT ![p] = r]
    /\ snap' = [snap EXCEPT ![p] = v]
    /\ resp' = NoResp

\* Handler q has passed create_employee's check for eid and not yet inserted.
Pending(q, eid) == pc[q] = "ce_insert" /\ req[q].employee_id = eid

Accept(p) == pc[p] = "idle" /\ ops < MaxOps /\ ops' = ops + 1

----------------------------------------------------------------------------
(* crud.create_employee behind POST /employees *)

\* POST /employees with body data, up to create_employee's existence check.
CreateEmployee(p, data) ==
    LET employee == Parsed[data]
        eid == employee.employee_id
        r == [Request("create_employee", eid, employee.profile, 0, "")
                EXCEPT !.data = data]
        view == BeginView
    IN
    /\ Accept(p)
    /\ IF employee.errors # {}
       THEN \* rejected by the request schema before the handler runs
            /\ Close(p)
            /\ resp' = Response(p, r, "RequestValidationError",
                                HTTP_422_UNPROCESSABLE, employee.errors)
       ELSE IF FirstEmployee(view, eid) # {}
       THEN /\ Close(p)
            /\ resp' = Response(p, r, "DuplicateEmployeeError",
                                CreateEmployeeStatus("DuplicateEmployeeError"), {})
       ELSE /\ Continue(p, "ce_insert", r, view)
            /\ acc' = acc
    /\ UNCHANGED <<employees, attendance, nextId, hist, race, created>>

CreateEmployeeCheck(p) == \E data \in EmployeeInputs : CreateEmployee(p, data)

CreateEmployeeForm(p) == \E data \in EmployeeForms : CreateEmployee(p, data)

CreateEmployeeCommit(p) ==
    LET r == req[p]
        row == Employee(r.employee_id, r.profile)
        ins == InsertEmployee(employees, row)
        out == CreateEmployeeRaises(ins.exc)
    IN
    /\ pc[p] = "ce_insert"
    /\ employees' = ins.employees
    /\ Committed(p, ins.employees, attendance)
    /\ IF ins.exc = "none"
       THEN \* db.commit() ended the transaction; db.refresh comes next
            /\ Continue(p, "ce_refresh", r, NoSnap)
            /\ acc' = acc
            /\ race' = [q \in Procs |->
                          IF q = p THEN "none"
                          ELSE IF Pending(q, r.employee_id) THEN "lost"
                          ELSE race[q]]
       ELSE \* db.rollback(), then the exception leaves the handler
            /\ Close(p)
            /\ resp' = Response(p, r, out, CreateEmployeeStatus(out), {})
            /\ race' = [race EXCEPT ![p] = "none"]
    /\ UNCHANGED <<attendance, nextId, created, ops>>

\* db.refresh(db_employee): SELECT the row by primary key in a new
\* transaction; a row that is gone raises InvalidRequestError.
CreateEmployeeRefresh(p) ==
    LET r == req[p]
        found == FirstEmployee(BeginView, r.employee_id)
        out == IF found = {} THEN "InvalidRequestError" ELSE "none"
    IN
    /\ pc[p] = "ce_refresh"
    /\ Close(p)
    /\ \E row \in IF found = {} THEN {{}} ELSE found :
         resp' = Response(p, r, out, CreateEmployeeStatus(out), row)
    /\ UNCHANGED <<employees, attendance, nextId, hist, race, created, ops>>

----------------------------------------------------------------------------
(* crud.delete_employee behind DELETE /employees/{employee_id} *)

\* The flush of db.delete(employee): the loaded children row by row, then
\* the parent row, whose removal cascades in the store.
FlushDelete(emps, atts, loaded, eid) ==
    [employees |-> DeleteParent(emps, eid),
     attendance |-> OnDeleteCascade(DeleteChildren(atts, loaded), eid)]

DeleteEmployeeCheck(p) ==
    \E eid \in EmpIds :
      LET r == Request("delete_employee", eid, {}, 0, "")
          view == BeginView
      IN
      /\ Accept(p)
      /\ IF FirstEmployee(view, eid) = {}
         THEN /\ Close(p)
              /\ resp' = Response(p, r, "False", DeleteEmployeeStatus(FALSE), {})
         ELSE /\ Continue(p, "de_delete", r, view)
              /\ acc' = acc
      /\ UNCHANGED <<employees, attendance, nextId, hist, race, created>>

DeleteEmployeeCommit(p) ==
    LET r == req[p]
        eid == r.employee_id
        loaded == LoadedChildren(ReadView(p), eid)
        after == FlushDelete(employees, attendance, loaded, eid)
    IN
    /\ pc[p] = "de_delete"
    /\ employees' = after.employees
    /\ attendance' = after.attendance
    /\ Committed(p, after.employees, after.attendance)
    /\ Close(p)
    /\ resp' = Response(p, r, "True", DeleteEmployeeStatus(TRUE),
                        Cardinality(attendance) - Cardinality(after.attendance))
    /\ race' = [q \in Procs |->
                  IF Pending(q, eid) /\ race[q] = "lost" THEN "freed" ELSE race[q]]
    /\ UNCHANGED <<nextId, created, ops>>

----------------------------------------------------------------------------
(* crud.create_attendance behind POST /attendance *)

\* Variant: every record is stored as Absent.
StatusEnumAbsent(s) == Absent

\* status_enum = Present if attendance.status == "Present" else Absent
StatusEnum(s) == IF s = "Present" THEN Present ELSE Absent

\* POST /attendance with employee_id eid, date d and status s, up to
\* create_attendance's existence check.
CreateAttendance(p, eid, d, s) ==
    LET r == Request("create_attendance", eid, {}, d, s)
        view == BeginView
    IN
    /\ Accept(p)
    /\ IF ~ValidStatus(s)
       THEN \* rejected by the request schema before the handler runs
            /\ Close(p)
            /\ resp' = Response(p, r, "InvalidStatusValue",
                                HTTP_422_UNPROCESSABLE, {})
       ELSE IF FirstEmployee(view, eid) = {}
       THEN /\ Close(p)
            /\ resp' = Response(p, r, "EmployeeNotFoundError",
                                CreateAttendanceStatus("EmployeeNotFoundError"), {})
       ELSE /\ Continue(p, "ca_insert", r, view)
            /\ acc' = acc
    /\ UNCHANGED <<employees, attendance, nextId, hist, race, created>>

CreateAttendanceCheck(p) ==
    \E eid \in EmpIds, d \in Dates, s \in StatusInputs : CreateAttendance(p, eid, d, s)

\* The requests the handlers of SpecDash receive: an employee marked
\* present on the latest day.
CreateAttendanceMarked(p) == \E eid \in EmpIds : CreateAttendance(p, eid, 2, "Present")

CreateAttendanceCommit(p) ==
    LET r == req[p]
        id == AutoIncrement(attendance, nextId)
        ins == InsertAttendance(employees, attendance, id, r.employee_id,
                                r.date, StatusEnum(r.status))
    IN
    /\ pc[p] = "ca_insert"
    /\ attendance' = ins.attendance
    /\ nextId' = id + 1
    /\ Committed(p, employees, ins.attendance)
    /\ IF ins.exc = "none"
       THEN /\ Continue(p, "ca_refresh", r, NoSnap)
            /\ acc' = [acc EXCEPT ![p] = [stage |-> 0, id |-> id]]
            /\ created' = Append(created, id)
       ELSE \* IntegrityError is not caught: the session closes, rolled back
            /\ Close(p)
            /\ resp' = Response(p, r, ins.exc, CreateAttendanceStatus(ins.exc), {})
            /\ created' = created
    /\ UNCHANGED <<employees, race, ops>>

\* db.refresh(db_attendance), then AttendanceResponse.from_orm
CreateAttendanceRefresh(p) ==
    LET r == req[p]
        found == {a \in BeginView.attendance : a.id = acc[p].id}
        out == IF found = {} THEN "InvalidRequestError" ELSE "none"
    IN
    /\ pc[p] = "ca_refresh"
    /\ Close(p)
    /\ \E body \in IF found = {} THEN {{}} ELSE {AttendanceResponse(a) : a \in found} :
         resp' = Response(p, r, out, CreateAttendanceStatus(out), body)
    /\ UNCHANGED <<employees, attendance, nextId, hist, race, created, ops>>

----------------------------------------------------------------------------
(* Read paths: crud.get_all_employees, crud.get_attendance_by_employee and
   main.get_dashboard_stats *)

\* The orders ORDER BY date DESC may return the rows of S in: rows of one
\* date come in any relative order.
\* Variant: ORDER BY date ASC.
Earliest(S) == {y \in S : \A z \in S : y.date <= z.date}

\* The rows of S that ORDER BY date DESC may return first.
Latest(S) == {y \in S : \A z \in S : y.date >= z.date}

RECURSIVE OrderByDateDesc(_)
OrderByDateDesc(S) ==
    IF S = {} THEN {<<>>}
    ELSE UNION { {<<x>> \o t : t \in OrderByDateDesc(S \ {x})} : x \in Latest(S) }

\* Variant: no limit.
LimitOff(seq, n) == seq

\* .limit(n)
Limit(seq, n) == SubSeq(seq, 1, IF Len(seq) < n THEN Len(seq) ELSE n)

\* A reader starts: its transaction's first query has run on the present state.
StartRead(p) == hist' = [hist EXCEPT ![p] = {Db}]

EndRead(p) == hist' = [hist EXCEPT ![p] = {}]

GetAllEmployees(p) ==
    LET r == Request("get_all_employees", <<>>, {}, 0, "") IN
    /\ Accept(p)
    /\ Close(p)
    /\ resp' = Response(p, r, "none", 200, BeginView.employees)
    /\ UNCHANGED <<employees, attendance, nextId, hist, race, created>>

GetAttendanceCheck(p) ==
    \E eid \in EmpIds :
      LET r == Request("get_attendance_by_employee", eid, {}, 0, "")
          view == BeginView
      IN
      /\ Accept(p)
      /\ IF FirstEmployee(view, eid) = {}
         THEN /\ Close(p)
              /\ resp' = Response(p, r, "EmployeeNotFoundError", HTTP_404_NOT_FOUND, {})
              /\ hist' = hist
         ELSE /\ Continue(p, "ga_list", r, view)
              /\ acc' = acc
              /\ StartRead(p)
      /\ UNCHANGED <<employees, attendance, nextId, race, created>>

GetAttendanceList(p) ==
    LET r == req[p]
        rows == {a \in ReadView(p).attendance : a.employee_id = r.employee_id}
    IN
    /\ pc[p] = "ga_list"
    /\ \E records \in OrderByDateDesc(rows) :
         resp' = Response(p, r, "none", 200,
                          [i \in 1..Len(records) |-> AttendanceResponse(records[i])])
    /\ Close(p)
    /\ EndRead(p)
    /\ UNCHANGED <<employees, attendance, nextId, race, created, ops>>

RecentLimit == 5

\* Variant: the date filter is missing.
CountAnyDate(v, today, status) ==
    Cardinality({x \in v.attendance : x.status = status})

\* db.query(Attendance).filter(date == today, status == status).count()
CountToday(v, today, status) ==
    Cardinality({x \in v.attendance : x.date = today /\ x.status = status})

\* Variant: every group counts all employees.
GroupByDepartmentTotal(v) ==
    { [name |-> d, count |-> Cardinality(v.employees)] :
      d \in {e.department : e \in v.employees} }

\* SELECT department, count(employee_id) ... GROUP BY department
GroupByDepartment(v) ==
    { [name |-> d, count |-> Cardinality({e \in v.employees : e.department = d})] :
      d \in {e.department : e \in v.employees} }

\* Query k of get_dashboard_stats on view v, with the locals a so far.
DashboardQuery(k, v, a, today) ==
    CASE k = 1 -> [a EXCEPT !.total_employees = Cardinality(v.employees)]
      [] k = 2 -> [a EXCEPT !.total_attendance = Cardinality(v.attendance)]
      [] k = 3 -> [a EXCEPT !.today = today,
                            !.present_today = CountToday(v, today, Present)]
      [] k = 4 -> [a EXCEPT !.absent_today = CountToday(v, a.today, Absent)]
      [] k = 5 -> [a EXCEPT !.departments = GroupByDepartment(v)]

\* db.query(Attendance).join(Employee): the rows with their employee.
JoinEmployee(v) ==
    {x \in v.attendance : \E e \in v.employees : e.employee_id = x.employee_id}

RecentEntry(v, x) ==
    [employee_id |-> x.employee_id,
     employee_name |-> (CHOOSE e \in v.employees : e.employee_id = x.employee_id).name,
     date |-> x.date,
     status |-> StatusValue(x.status)]

NewAcc ==
    [stage |-> 1, total_employees |-> 0, total_attendance |-> 0, today |-> 0,
     present_today |-> 0, absent_today |-> 0, departments |-> {}]

DashboardStart(p) ==
    LET r == Request("get_dashboard_stats", <<>>, {}, 0, "")
        view == BeginView
    IN
    /\ Accept(p)
    /\ Continue(p, "ds_query", r, view)
    /\ acc' = [acc EXCEPT ![p] = [DashboardQuery(1, view, NewAcc, 0) EXCEPT !.stage = 2]]
    /\ StartRead(p)
    /\ UNCHANGED <<employees, attendance, nextId, race, created>>

DashboardStep(p) ==
    /\ pc[p] = "ds_query"
    /\ acc[p].stage \in 2..5
    /\ \E today \in IF acc[p].stage = 3 THEN Dates ELSE {0} :
         acc' = [acc EXCEPT ![p] =
                   [DashboardQuery(acc[p].stage, ReadView(p), acc[p], today)
                      EXCEPT !.stage = acc[p].stage + 1]]
    /\ resp' = NoResp
    /\ UNCHANGED <<employees, attendance, nextId, pc, req, snap, hist, race,
                   created, ops>>

DashboardFinish(p) ==
    LET v == ReadView(p)
        a == acc[p]
    IN
    /\ pc[p] = "ds_query"
    /\ a.stage = 6
    /\ \E ordered \in OrderByDateDesc(JoinEmployee(v)) :
         LET recent == Limit(ordered, RecentLimit) IN
         resp' = Response(p, req[p], "none", 200,
                   [today |-> a.today,
                    total_employees |-> a.total_employees,
                    total_attendance |-> a.total_attendance,
                    present_today |-> a.present_today,
                    absent_today |-> a.absent_today,
                    departments |-> a.departments,
                    recent_attendance |->
                        [i \in 1..Len(recent) |-> RecentEntry(v, recent[i])]])
    /\ Close(p)
    /\ EndRead(p)
    /\ UNCHANGED <<employees, attendance, nextId, race, created, ops>>

----------------------------------------------------------------------------

\* The store when the handlers start: empty as init_db leaves it, or as one
\* accepted employee creation and one accepted attendance creation leave it.
Seeds ==
    { [employees |-> {}, attendance |-> {}, nextId |-> 1],
      [employees |-> {Employee(E1, Ann)},
       attendance |-> {Attendance(1, E1, 2, Present)},
       nextId |-> 2] }

\* A store that eight accepted creations leave: two employees and six
\* attendance rows, two on each of three days.
DashSeed ==
    [employees |-> {Employee(E1, Ann), Employee(E2, Bob)},
     attendance |-> {Attendance(1, E1, 0, Present), Attendance(2, E2, 0, Absent),
                     Attendance(3, E1, 1, Absent), Attendance(4, E2, 1, Present),
                     Attendance(5, E1, 2, Present), Attendance(6, E2, 2, Present)},
     nextId |-> 7]

\* The ids given to the rows of atts, in the order given.
RECURSIVE IdsInOrder(_)
IdsInOrder(atts) ==
    IF atts = {} THEN <<>>
    ELSE LET last == CHOOSE a \in atts : \A b \in atts : b.id <= a.id IN
         Append(IdsInOrder(atts \ {last}), last.id)

\* The handlers start on one of the stores of seeds.
Start(seeds) ==
    /\ \E seed \in seeds :
         /\ employees = seed.employees
         /\ attendance = seed.attendance
         /\ nextId = seed.nextId
         /\ created = IdsInOrder(seed.attendance)
    /\ pc = [p \in Procs |-> "idle"]
    /\ req = [p \in Procs |-> NoReq]
    /\ snap = [p \in Procs |-> NoSnap]
    /\ acc = [p \in Procs |-> NoAcc]
    /\ hist = [p \in Procs |-> {}]
    /\ race = [p \in Procs |-> "none"]
    /\ resp = NoResp
    /\ ops = 0

Init == Start(Seeds)

Next ==
    \E p \in Procs :
      \/ CreateEmployeeCheck(p)
      \/ CreateEmployeeCommit(p)
      \/ CreateEmployeeRefresh(p)
      \/ DeleteEmployeeCheck(p)
      \/ DeleteEmployeeCommit(p)
      \/ CreateAttendanceCheck(p)
      \/ CreateAttendanceCommit(p)
      \/ CreateAttendanceRefresh(p)
      \/ GetAllEmployees(p)
      \/ GetAttendanceCheck(p)
      \/ GetAttendanceList(p)
      \/ DashboardStart(p)
      \/ DashboardStep(p)
      \/ DashboardFinish(p)

Spec == Init /\ [][Next]_vars

\* The employee registry alone, its creation requests drawn from
\* EmployeeForms.
NextForms ==
    \E p \in Procs :
      \/ CreateEmployeeForm(p)
      \/ CreateEmployeeCommit(p)
      \/ CreateEmployeeRefresh(p)
      \/ DeleteEmployeeCheck(p)
      \/ DeleteEmployeeCommit(p)
      \/ GetAllEmployees(p)

SpecForms == Init /\ [][NextForms]_vars

\* The dashboard beside the writers of attendance and the deletes, on the
\* store DashSeed.
InitDash == Start({DashSeed})

NextDash ==
    \E p \in Procs :
      \/ DashboardStart(p)
      \/ DashboardStep(p)
      \/ DashboardFinish(p)
      \/ CreateAttendanceMarked(p)
      \/ CreateAttendanceCommit(p)
      \/ CreateAttendanceRefresh(p)
      \/ DeleteEmployeeCheck(p)
      \/ DeleteEmployeeCommit(p)

SpecDash == InitDash /\ [][NextDash]_vars

----------------------------------------------------------------------------
(* Vocabulary of the properties *)

HasEmployee(emps, eid) == \E e \in emps : e.employee_id = eid

RecordsOf(atts, eid) == {a \in atts : a.employee_id = eid}

\* The request handler p receives in this step (it is answered in the same
\* step, or carried in req'[p]).
CallOf(p) == IF pc'[p] = "idle" THEN resp' ELSE req'[p]

Calls(p, op) ==
    /\ pc[p] = "idle"
    /\ pc'[p] # "idle" \/ resp'.proc = p
    /\ CallOf(p).op = op

\* Handler p is answered in this step.
Answers(p) == resp'.proc = p

Fields == {"employee_id", "name", "email", "department"}

\* A non-empty text of whitespace only.
Blank(t) == Len(t) >= 1 /\ AllIn(t, Whitespace)

\* Field values the specification calls valid: all four present, none
\* empty or blank, the email matching the pattern.
ValidFields(V) ==
    /\ DOMAIN V = Fields
    /\ \A f \in Fields : Len(V[f]) >= 1 /\ ~Blank(V[f])
    /\ MatchEmailPattern(V.email)

\* The outcomes that are errors of the caller.
ErrorOutcomes ==
    {"RequestValidationError", "InvalidStatusValue", "DuplicateEmployeeError",
     "EmployeeNotFoundError", "False"}

----------------------------------------------------------------------------
(* C1: in every reachable state no two employee rows share an employee_id. *)
C1_UniqueEmployeeId ==
    \A e1, e2 \in employees : e1.employee_id = e2.employee_id => e1 = e2

\* A creation that lost the race for its id was turned down, while the
\* table holds that id and attendance exists.
C1_Witness ==
    /\ resp.op = "create_employee"
    /\ resp.at = "ce_insert"
    /\ resp.out = "DuplicateEmployeeError"
    /\ HasEmployee(employees, resp.employee_id)
    /\ attendance # {}

(* C2: in every reachable state each attendance row's employee_id is the
   id of an employee row: no orphaned attendance is committed. *)
C2_NoOrphanAttendance ==
    \A a \in attendance : HasEmployee(employees, a.employee_id)

\* An insert for an employee deleted after the existence check was refused
\* by the store.
C2_Witness ==
    /\ resp.op = "create_attendance"
    /\ resp.at = "ca_insert"
    /\ resp.out = "IntegrityError"
    /\ ~HasEmployee(employees, resp.employee_id)

(* C3: when delete_employee(e) has returned true, the store holds no
   employee row and no attendance row with that employee_id. *)
C3_CascadeDelete ==
    (resp.op = "delete_employee" /\ resp.out = "True") =>
        /\ ~HasEmployee(employees, resp.employee_id)
        /\ RecordsOf(attendance, resp.employee_id) = {}

\* A delete that removed attendance rows along with the employee.
C3_Witness ==
    /\ resp.op = "delete_employee"
    /\ resp.out = "True"
    /\ resp.body >= 1
    /\ employees # {}

(* C4: create_employee called with an employee_id that exists fails with
   DuplicateEmployee, and the store then holds exactly one row with that
   id, the row it held before (the fields of the first creation). *)
C4_DuplicateRejected ==
    [][\A p \in Procs :
         (Calls(p, "create_employee") /\ HasEmployee(employees, CallOf(p).employee_id)) =>
            /\ Answers(p)
            /\ resp'.out = "DuplicateEmployeeError"
            /\ employees' = employees
            /\ Cardinality({e \in employees' :
                              e.employee_id = resp'.employee_id}) = 1]_vars

\* A duplicate creation with other field values was turned down at the
\* call, and the stored row has the first values.
C4_Witness ==
    /\ resp.op = "create_employee"
    /\ resp.at = "idle"
    /\ resp.out = "DuplicateEmployeeError"
    /\ \E e \in employees : /\ e.employee_id = resp.employee_id
                            /\ e.name # resp.profile.name
                            /\ e.email # resp.profile.email
                            /\ e.department # resp.profile.department

(* C5: create_attendance (with a valid status) called with an employee_id
   that names no employee fails with EmployeeNotFound (404) and leaves the
   attendance rows unchanged. *)
C5_UnknownEmployeeRejected ==
    [][\A p \in Procs :
         (/\ Calls(p, "create_attendance")
          /\ CallOf(p).status \in {"Present", "Absent"}
          /\ ~HasEmployee(employees, CallOf(p).employee_id)) =>
            /\ Answers(p)
            /\ resp'.out = "EmployeeNotFoundError"
            /\ resp'.code = 404
            /\ attendance' = attendance]_vars

\* Attendance for an unknown employee was refused while another employee
\* has attendance rows.
C5_Witness ==
    /\ resp.op = "create_attendance"
    /\ resp.at = "idle"
    /\ resp.out = "EmployeeNotFoundError"
    /\ ~HasEmployee(employees, resp.employee_id)
    /\ employees # {}
    /\ attendance # {}

(* C6: attendance creation with a status other than exactly "Present" or
   "Absent" is rejected with InvalidStatusValue (422) and persists
   nothing; every stored status is Present or Absent. *)
C6_StatusDomainClosed ==
    /\ [][\A p \in Procs :
            (Calls(p, "create_attendance")
               /\ CallOf(p).status \notin {"Present", "Absent"}) =>
               /\ Answers(p)
               /\ resp'.out = "InvalidStatusValue"
               /\ resp'.code = 422
               /\ attendance' = attendance
               /\ nextId' = nextId]_vars
    /\ [](\A a \in attendance : a.status \in AttendanceStatus)

\* A case variant of a valid status was rejected for an existing employee.
C6_Witness ==
    /\ resp.op = "create_attendance"
    /\ resp.status = "present"
    /\ resp.out = "InvalidStatusValue"
    /\ HasEmployee(employees, resp.employee_id)

(* C7 as stated: of two create_employee calls that passed the existence
   check for one employee_id before either inserted, at most one returns
   an employee, and at most one row with the id is stored. *)
C7_RaceSingleWinnerAlways ==
    /\ [][\A p \in Procs :
            (race[p] # "none" /\ pc[p] = "ce_insert" /\ pc'[p] # "ce_insert") =>
               /\ Answers(p)
               /\ resp'.out = "DuplicateEmployeeError"]_vars
    /\ [](\A eid \in EmpIds :
            Cardinality({e \in employees : e.employee_id = eid}) <= 1)

(* C7 amended: of two create_employee calls that passed the existence
   check for one employee_id before either inserted, the one whose insert
   comes second ends with DuplicateEmployee and writes nothing, unless a
   delete_employee of that id committed between the two inserts; in every
   case at most one row with the id is stored. *)
C7_RaceSingleWinner ==
    /\ [][\A p \in Procs :
            (race[p] = "lost" /\ pc[p] = "ce_insert" /\ pc'[p] # "ce_insert") =>
               /\ Answers(p)
               /\ resp'.out = "DuplicateEmployeeError"
               /\ employees' = employees]_vars
    /\ [](\A eid \in EmpIds :
            Cardinality({e \in employees : e.employee_id = eid}) <= 1)

\* Two creations raced for one id with different fields; the later insert
\* was turned down and the winner's row is the one stored.
C7_Witness ==
    /\ resp.op = "create_employee"
    /\ resp.at = "ce_insert"
    /\ resp.out = "DuplicateEmployeeError"
    /\ \E e \in employees : /\ e.employee_id = resp.employee_id
                            /\ e.name # resp.profile.name
    /\ Cardinality({e \in employees : e.employee_id = resp.employee_id}) = 1

(* C8: a create_employee call that passed the existence check and whose
   insert the primary key rejects ends with DuplicateEmployee, status 409
   (not 500); its transaction is rolled back and the table is as before. *)
C8_LostRaceIsDuplicate ==
    [][\A p \in Procs :
         (/\ pc[p] = "ce_insert"
          /\ pc'[p] # "ce_insert"
          /\ HasEmployee(employees, req[p].employee_id)) =>
            /\ Answers(p)
            /\ resp'.out = "DuplicateEmployeeError"
            /\ resp'.code = HTTP_409_CONFLICT
            /\ employees' = employees
            /\ ~snap'[p].open]_vars

\* The store rejected an insert after a passed check; the answer was 409.
C8_Witness ==
    /\ resp.op = "create_employee"
    /\ resp.at = "ce_insert"
    /\ resp.code = 409
    /\ ~snap[resp.proc].open
    /\ pc[resp.proc] = "idle"

(* C9: a read that runs while delete_employee commits never reports a
   half-deleted employee: what get_attendance_by_employee, get_all_employees
   and get_dashboard_stats return is what their queries give on one single
   committed state of the store among those that existed while the read
   ran, so the employee and its attendance are seen both before or both
   after the delete. *)
C9_ReadsSeeNoPartialDelete ==
    [][\A p \in Procs : Answers(p) =>
         /\ (resp'.op = "get_attendance_by_employee" /\ resp'.out = "none") =>
              \E s \in hist[p] :
                /\ HasEmployee(s.employees, resp'.employee_id)
                /\ {resp'.body[i] : i \in DOMAIN resp'.body} =
                     {AttendanceResponse(a) :
                        a \in RecordsOf(s.attendance, resp'.employee_id)}
         /\ (resp'.op = "get_all_employees") =>
              resp'.body = employees
         /\ (resp'.op = "get_dashboard_stats") =>
              \E s \in hist[p] :
                /\ resp'.body.total_employees = Cardinality(s.employees)
                /\ resp'.body.total_attendance = Cardinality(s.attendance)
                /\ resp'.body.present_today + resp'.body.absent_today =
                     Cardinality({a \in s.attendance : a.date = resp'.body.today})
                /\ \A d \in resp'.body.departments :
                     d.count = Cardinality({e \in s.employees : e.department = d.name})
                /\ \A i \in DOMAIN resp'.body.recent_attendance :
                     \E a \in s.attendance, e \in s.employees :
                        /\ a.employee_id = e.employee_id
                        /\ resp'.body.recent_attendance[i].employee_id = a.employee_id
                        /\ resp'.body.recent_attendance[i].employee_name = e.name
                        /\ resp'.body.recent_attendance[i].date = a.date]_vars

\* An attendance listing returned the employee's rows although the employee
\* was deleted while the listing ran.
C9_Witness ==
    /\ resp.op = "get_attendance_by_employee"
    /\ resp.out = "none"
    /\ Len(resp.body) >= 1
    /\ ~HasEmployee(employees, resp.employee_id)

(* C10: create_attendance's existence check and insert are one atomic step
   with respect to a concurrent delete_employee of the same id: a call
   with a valid status either persists a record while the employee exists
   or fails with EmployeeNotFound; it has no other outcome. *)
C10_CheckThenInsertAtomic ==
    (resp.op = "create_attendance" /\ resp.out # "InvalidStatusValue") =>
        \/ /\ resp.out = "none"
           /\ HasEmployee(employees, resp.employee_id)
           /\ \E a \in attendance : a.id = resp.body.id
        \/ resp.out = "EmployeeNotFoundError"

(* C11: for an existing employee e, get_attendance_by_employee(e) returns
   exactly the attendance records stored for e (in one committed state of
   the store while the call ran): each of them once, none of another
   employee, and each record's date is greater than or equal to the date
   of the record after it. *)
C11_ListingExactAndOrdered ==
    [][\A p \in Procs :
         (/\ Answers(p)
          /\ resp'.op = "get_attendance_by_employee"
          /\ resp'.out = "none") =>
            LET body == resp'.body
                e == resp'.employee_id
            IN
            /\ \E s \in hist[p] :
                 LET stored == RecordsOf(s.attendance, e) IN
                 /\ HasEmployee(s.employees, e)
                 /\ Len(body) = Cardinality(stored)
                 /\ {body[i].id : i \in 1..Len(body)} = {a.id : a \in stored}
                 /\ \A i \in 1..Len(body) :
                      \E a \in stored : /\ a.id = body[i].id
                                        /\ a.date = body[i].date
                                        /\ a.employee_id = body[i].employee_id
            /\ \A i \in 1..Len(body) : body[i].employee_id = e
            /\ \A i \in 1..(Len(body) - 1) : body[i].date >= body[i + 1].date]_vars

\* A listing returned two records of different dates, the later one first.
C11_Witness ==
    /\ resp.op = "get_attendance_by_employee"
    /\ resp.out = "none"
    /\ Len(resp.body) >= 2
    /\ resp.body[1].date > resp.body[2].date
    /\ resp.body[1].id < resp.body[2].id

(* C12: get_attendance_by_employee(e) fails with EmployeeNotFound exactly
   when no employee with id e exists at the call, also after e was deleted
   together with its attendance records; for an existing employee it does
   not fail, and when that employee has no attendance record it returns
   the empty list. *)
C12_NotFoundIffNoEmployee ==
    /\ [][\A p \in Procs :
            Calls(p, "get_attendance_by_employee") =>
               IF HasEmployee(employees, CallOf(p).employee_id)
               THEN ~Answers(p)
               ELSE /\ Answers(p)
                    /\ resp'.out = "EmployeeNotFoundError"
                    /\ resp'.code = 404]_vars
    /\ [][\A p \in Procs :
            (Answers(p) /\ resp'.op = "get_attendance_by_employee"
               /\ pc[p] # "idle") =>
               /\ resp'.out = "none"
               /\ (\A s \in hist[p] : RecordsOf(s.attendance, resp'.employee_id) = {})
                     => resp'.body = <<>>]_vars

\* A lookup for an employee that is gone was refused after attendance
\* records had been created and every one of them removed by a delete.
C12_Witness ==
    /\ resp.op = "get_attendance_by_employee"
    /\ resp.out = "EmployeeNotFoundError"
    /\ ~HasEmployee(employees, resp.employee_id)
    /\ created # <<>>
    /\ attendance = {}

(* C13: delete_employee(e) called with an employee_id that names no
   employee returns false (no error is raised), the employee and
   attendance tables are unchanged, and the endpoint answers 404. *)
C13_DeleteUnknownIsFalse ==
    [][\A p \in Procs :
         (/\ Calls(p, "delete_employee")
          /\ ~HasEmployee(employees, CallOf(p).employee_id)) =>
            /\ Answers(p)
            /\ resp'.out = "False"
            /\ resp'.code = 404
            /\ employees' = employees
            /\ attendance' = attendance]_vars

\* A delete of an unknown id was answered 404 while the store held another
\* employee and attendance.
C13_Witness ==
    /\ resp.op = "delete_employee"
    /\ resp.out = "False"
    /\ resp.code = 404
    /\ employees # {}
    /\ attendance # {}

(* C14: when an employee is created with valid field values V, the store
   then holds exactly one row with that employee_id and its four fields
   equal V character for character; listing all employees returns the
   stored rows as they are. *)
C14_RoundTrip ==
    /\ [][\A p \in Procs :
            (/\ pc[p] = "ce_insert"
             /\ pc'[p] = "ce_refresh"
             /\ ValidFields(req[p].data)) =>
               {e \in employees' : e.employee_id = req[p].data.employee_id}
                 = {req[p].data}]_vars
    /\ [][\A p \in Procs :
            (Answers(p) /\ resp'.op = "get_all_employees") =>
               resp'.body = employees]_vars

(* C15: an employee creation request in which any of employee_id, name,
   email, department is omitted or is the empty string is answered 422
   and the employee table is unchanged. *)
C15_RequiredFields ==
    [][\A p \in Procs :
         (/\ Calls(p, "create_employee")
          /\ \E f \in Fields : \/ f \notin DOMAIN CallOf(p).data
                               \/ CallOf(p).data[f] = <<>>) =>
            /\ Answers(p)
            /\ resp'.code = 422
            /\ employees' = employees]_vars

\* A creation with an empty field was answered 422 while the registry holds
\* employees.
C15_Witness ==
    /\ resp.op = "create_employee"
    /\ resp.code = 422
    /\ \E f \in DOMAIN resp.data : resp.data[f] = <<>>
    /\ employees # {}

(* C16: an employee creation in which employee_id, name or department is
   a non-empty text of whitespace only is rejected as a validation
   failure (422) and creates no employee row. *)
C16_BlankRejected ==
    [][\A p \in Procs :
         (/\ Calls(p, "create_employee")
          /\ \E f \in {"employee_id", "name", "department"} :
                f \in DOMAIN CallOf(p).data /\ Blank(CallOf(p).data[f])) =>
            /\ Answers(p)
            /\ resp'.code = 422
            /\ employees' = employees]_vars

(* C17: an employee creation whose email does not match the pattern
   ^[a-zA-Z0-9._%+-]+@[a-zA-Z0-9.-]+\.[a-zA-Z]{2,}$ is rejected with 422
   and creates no employee row. *)
C17_EmailPatternEnforced ==
    [][\A p \in Procs :
         (/\ Calls(p, "create_employee")
          /\ "email" \in DOMAIN CallOf(p).data
          /\ ~MatchEmailPattern(CallOf(p).data.email)) =>
            /\ Answers(p)
            /\ resp'.code = 422
            /\ employees' = employees]_vars

(* C18: an operation that ends in a validation failure, DuplicateEmployee
   (also after a lost race), EmployeeNotFound or the false of a delete
   of an unknown id changed neither table: not in the step that answers
   and not in the step that took the request in. *)
C18_ErrorsLeaveStore ==
    /\ [][\A p \in Procs :
            (Answers(p) /\ resp'.out \in ErrorOutcomes) =>
               /\ employees' = employees
               /\ attendance' = attendance]_vars
    /\ [][\A p \in Procs :
            (pc[p] = "idle" /\ pc'[p] # "idle") =>
               /\ employees' = employees
               /\ attendance' = attendance]_vars

\* A creation that lost the race was answered 409; the stored row is the
\* winner's, with another department.
C18_Witness ==
    /\ resp.op = "create_employee"
    /\ resp.at = "ce_insert"
    /\ resp.code = 409
    /\ \E e \in employees : /\ e.employee_id = resp.employee_id
                            /\ e.department # resp.profile.department

(* C19: every answer carries the status of its outcome: a created
   employee or attendance record 201, a deletion 204, DuplicateEmployee
   409, EmployeeNotFound (attendance creation, attendance listing,
   deletion of an unknown employee) 404, a validation failure 422. *)
C19_StatusMapping ==
    /\ (resp.op \in {"create_employee", "create_attendance"} /\ resp.out = "none")
          => resp.code = 201
    /\ (resp.op = "delete_employee" /\ resp.out = "True") => resp.code = 204
    /\ resp.out = "DuplicateEmployeeError" => resp.code = 409
    /\ resp.out = "EmployeeNotFoundError" => resp.code = 404
    /\ (resp.op = "delete_employee" /\ resp.out = "False") => resp.code = 404
    /\ resp.out \in {"RequestValidationError", "InvalidStatusValue"}
          => resp.code = 422

\* An employee creation was answered 201 with the stored row.
C19_Witness ==
    /\ resp.op = "create_employee"
    /\ resp.out = "none"
    /\ resp.code = 201
    /\ resp.body \in employees

(* C20: no attendance id is handed out twice: the ids of the records
   created so far, those removed by a cascade delete included, are
   pairwise different, and the stored records carry such ids, each once. *)
C20_IdsNeverReused ==
    /\ \A i, j \in DOMAIN created : i # j => created[i] # created[j]
    /\ \A a \in attendance : \E i \in DOMAIN created : created[i] = a.id
    /\ \A a, b \in attendance : a.id = b.id => a = b

\* A record was created after an earlier one was removed by a delete.
C20_Witness ==
    /\ Len(created) >= 2
    /\ created[1] \notin {a.id : a \in attendance}
    /\ created[Len(created)] \in {a.id : a \in attendance}

(* C21: an attendance creation for an existing employee is accepted also
   when a record with the same employee_id and date is stored, whatever
   the two statuses: the call passes the existence check, its insert adds
   a record under an id no stored record has, and the records stored
   before stay as they were. *)
C21_SameDayAccepted ==
    [][\A p \in Procs :
         /\ ( /\ Calls(p, "create_attendance")
              /\ ValidStatus(CallOf(p).status)
              /\ HasEmployee(employees, CallOf(p).employee_id) )
            => pc'[p] = "ca_insert"
         /\ ( /\ pc[p] = "ca_insert"
              /\ pc'[p] # "ca_insert"
              /\ HasEmployee(employees, req[p].employee_id) )
            => /\ pc'[p] = "ca_refresh"
               /\ attendance \subseteq attendance'
               /\ \E a \in attendance' \ attendance :
                    /\ attendance' = attendance \cup {a}
                    /\ a.employee_id = req[p].employee_id
                    /\ a.date = req[p].date
                    /\ a.status = StatusEnum(req[p].status)
                    /\ \A b \in attendance : b.id # a.id]_vars

\* A creation was answered 201 with a record that shares employee and date
\* with another stored record of the other status.
C21_Witness ==
    /\ resp.op = "create_attendance"
    /\ resp.out = "none"
    /\ \E a, b \in attendance :
         /\ a.id = resp.body.id
         /\ b.id # a.id
         /\ b.employee_id = a.employee_id
         /\ b.date = a.date
         /\ b.status # a.status

(* C22: of the delete_employee calls for one employee_id, however they
   interleave, exactly one returns true for each creation of that id: a
   call that returns true is the one that removed the stored row, and
   every other call returns false; none raises. *)
C22_OneDeleteWins ==
    [][\A p \in Procs :
         (Answers(p) /\ resp'.op = "delete_employee") =>
            /\ resp'.out \in {"True", "False"}
            /\ resp'.out = "True" =>
                 /\ HasEmployee(employees, resp'.employee_id)
                 /\ ~HasEmployee(employees', resp'.employee_id)]_vars

(* C23: a stored attendance record stays stored, with the id, employee_id,
   date and status it has, in every step except the commit of a
   delete_employee for its employee_id: no other operation removes or
   alters it. *)
C23_RecordsStable ==
    [][\A a \in attendance :
         /\ a \in attendance'
            \/ \E p \in Procs :
                 /\ pc[p] = "de_delete"
                 /\ pc'[p] = "idle"
                 /\ req[p].employee_id = a.employee_id
         /\ \A b \in attendance' : b.id = a.id => b = a]_vars

\* A delete removed the records of its employee, and a record created
\* before them is still stored.
C23_Witness ==
    /\ resp.op = "delete_employee"
    /\ resp.out = "True"
    /\ resp.body >= 1
    /\ \E a \in attendance : a.id = created[1]

(* C24: in a dashboard response present_today and absent_today are the
   numbers of stored attendance records (of one committed state of the
   store while the request ran) whose date is the current date and whose
   status is Present, respectively Absent; records of other dates are
   counted in neither. *)
C24_TodayCounts ==
    [][\A p \in Procs :
         (Answers(p) /\ resp'.op = "get_dashboard_stats") =>
            \E s \in hist[p] :
               LET today == resp'.body.today
                   onDay(st) == {a \in s.attendance : a.date = today /\ a.status = st}
               IN
               /\ resp'.body.present_today = Cardinality(onDay(Present))
               /\ resp'.body.absent_today = Cardinality(onDay(Absent))
               /\ resp'.body.present_today + resp'.body.absent_today
                    = Cardinality({a \in s.attendance : a.date = today})]_vars

\* A dashboard response counts records of both statuses for the current
\* date while records of other dates are stored.
C24_Witness ==
    /\ resp.op = "get_dashboard_stats"
    /\ resp.body.present_today >= 1
    /\ resp.body.absent_today >= 1
    /\ resp.body.total_attendance
         > resp.body.present_today + resp.body.absent_today
    /\ \E a \in attendance : a.date # resp.body.today

(* C25: the department distribution of a dashboard response has exactly
   one entry for each distinct department of the employees stored (in one
   committed state of the store while the request ran), and the entry's
   count is the number of those employees with that department. *)
C25_DepartmentDistribution ==
    [][\A p \in Procs :
         (Answers(p) /\ resp'.op = "get_dashboard_stats") =>
            \E s \in hist[p] :
               LET entries == resp'.body.departments IN
               /\ {d.name : d \in entries} = {e.department : e \in s.employees}
               /\ \A d1, d2 \in entries : d1.name = d2.name => d1 = d2
               /\ \A d \in entries :
                    d.count = Cardinality({e \in s.employees : e.department = d.name})]_vars

\* A dashboard response reports a department of two employees.
C25_Witness ==
    /\ resp.op = "get_dashboard_stats"
    /\ \E d \in resp.body.departments : d.count = 2
    /\ \E e1, e2 \in employees : e1 # e2 /\ e1.department = e2.department

\* Entry x of recent_attendance shows record a of the store state s.
ShowsRecord(x, a, s) ==
    /\ x.employee_id = a.employee_id
    /\ x.date = a.date
    /\ x.status = StatusValue(a.status)
    /\ \E e \in s.employees : e.employee_id = a.employee_id /\ x.employee_name = e.name

(* C26: recent_attendance of a dashboard response has min(5, number of
   stored records) entries (of one committed state of the store while the
   request ran), ordered by date descending; the entries show different
   stored records, every stored record with a later date than an entry is
   shown too, and each entry's employee_name is the name of the stored
   employee with the entry's employee_id. *)
C26_RecentAttendance ==
    [][\A p \in Procs :
         (Answers(p) /\ resp'.op = "get_dashboard_stats") =>
            \E s \in hist[p] :
               LET recent == resp'.body.recent_attendance
                   n == Cardinality(s.attendance)
               IN
               /\ Len(recent) = IF n < RecentLimit THEN n ELSE RecentLimit
               /\ \A i, j \in DOMAIN recent : i < j => recent[i].date >= recent[j].date
               /\ \A i \in DOMAIN recent :
                    /\ Cardinality({j \in DOMAIN recent : recent[j] = recent[i]})
                         <= Cardinality({a \in s.attendance : ShowsRecord(recent[i], a, s)})
                    /\ Cardinality({a \in s.attendance : a.date > recent[i].date})
                         = Cardinality({j \in DOMAIN recent : recent[j].date > recent[i].date})
                    /\ \E e \in s.employees :
                         /\ e.employee_id = recent[i].employee_id
                         /\ e.name = recent[i].employee_name]_vars

\* A dashboard response shows five records of different dates while more
\* than five are stored.
C26_Witness ==
    /\ resp.op = "get_dashboard_stats"
    /\ Len(resp.body.recent_attendance) = RecentLimit
    /\ resp.body.total_attendance > RecentLimit
    /\ resp.body.recent_attendance[1].date > resp.body.recent_attendance[RecentLimit].date

(* C27: for every accepted attendance creation the status of the record
   stored and the status returned equal the status requested. *)
C27_StatusPreserved ==
    (resp.op = "create_attendance" /\ resp.out = "none") =>
        /\ resp.body.status = resp.status
        /\ \E a \in attendance :
             /\ a.id = resp.body.id
             /\ StatusValue(a.status) = resp.status
        /\ \A a \in attendance : a.id = resp.body.id => a.status \in AttendanceStatus

\* Creations of both statuses were accepted: the last answered one asked
\* for Absent and a record stored before it is Present.
C27_Witness ==
    /\ resp.op = "create_attendance"
    /\ resp.out = "none"
    /\ resp.status = "Absent"
    /\ \E a \in attendance : a.id < resp.body.id /\ a.status = Present

(* C28: once delete_employee(e) has returned true the id e is free and no
   attendance record of e is left, so a create_employee with a valid body
   and an id not stored passes the duplicate check, its insert stores the
   employee, and the employee just stored has no attendance record;
   get_attendance_by_employee for an employee without records returns the
   empty list. *)
C28_RecreateStartsEmpty ==
    [][\A p \in Procs :
         /\ (Answers(p) /\ resp'.op = "delete_employee" /\ resp'.out = "True")
            => /\ ~HasEmployee(employees', resp'.employee_id)
               /\ RecordsOf(attendance', resp'.employee_id) = {}
         /\ ( /\ Calls(p, "create_employee")
              /\ Parsed[CallOf(p).data].errors = {}
              /\ ~HasEmployee(employees, CallOf(p).employee_id) )
            => pc'[p] = "ce_insert"
         /\ ( /\ pc[p] = "ce_insert"
              /\ pc'[p] # "ce_insert"
              /\ ~HasEmployee(employees, req[p].employee_id) )
            => /\ pc'[p] = "ce_refresh"
               /\ employees' = employees \cup {Employee(req[p].employee_id, req[p].profile)}
               /\ RecordsOf(attendance', req[p].employee_id) = {}
         /\ ( /\ pc[p] = "ga_list"
              /\ Answers(p)
              /\ RecordsOf(attendance, resp'.employee_id) = {}
              /\ \A s \in hist[p] : RecordsOf(s.attendance, resp'.employee_id) = {} )
            => resp'.out = "none" /\ resp'.body = <<>>]_vars

\* The attendance of the stored employee E1 is listed as empty after the
\* one record ever created, a record of E1, was removed by a delete: E1
\* was created again.
C28_Witness ==
    /\ resp.op = "get_attendance_by_employee"
    /\ resp.out = "none"
    /\ resp.body = <<>>
    /\ resp.employee_id = E1
    /\ HasEmployee(employees, E1)
    /\ Len(created) = 1
    /\ nextId = 2
    /\ attendance = {}

(* C29: the commit of delete_employee(e) removes the employee row e and
   the attendance rows of e and nothing else: every other employee row and
   every attendance row of another employee is stored unchanged after it,
   and no row is added. *)
C29_DeleteFrame ==
    [][\A p \in Procs :
         (pc[p] = "de_delete" /\ pc'[p] = "idle") =>
            LET e == req[p].employee_id IN
            /\ employees' = {x \in employees : x.employee_id # e}
            /\ attendance' = {a \in attendance : a.employee_id # e}]_vars

\* A delete removed an employee with attendance records while another
\* employee and a record of that other employee stay stored.
C29_Witness ==
    /\ resp.op = "delete_employee"
    /\ resp.out = "True"
    /\ resp.body >= 1
    /\ \E x \in employees, a \in attendance :
         /\ x.employee_id # resp.employee_id
         /\ a.employee_id = x.employee_id

\* The sum of the counts of the department entries.
RECURSIVE SumCounts(_)
SumCounts(entries) ==
    IF entries = {} THEN 0
    ELSE LET d == CHOOSE x \in entries : TRUE IN d.count + SumCounts(entries \ {d})

(* C30: every dashboard response is consistent in itself, also when
   writes commit while it is computed: the counts of the department
   distribution sum to total_employees, and present_today plus
   absent_today is at most total_attendance. *)
C30_DashboardConsistent ==
    resp.op = "get_dashboard_stats" =>
        /\ SumCounts(resp.body.departments) = resp.body.total_employees
        /\ resp.body.present_today + resp.body.absent_today
             <= resp.body.total_attendance

\* A dashboard response was computed while writes committed: its totals
\* are no longer those of the store.
C30_Witness ==
    /\ resp.op = "get_dashboard_stats"
    /\ resp.body.total_employees # Cardinality(employees)
    /\ resp.body.total_attendance # Cardinality(attendance)
    /\ resp.body.departments # {}

====
